---- MODULE Spec2Model ----
(***************************************************************************)
(* Model of the TOON support of gemini-rust:                               *)
(*   - src/src/common/format.rs: toon::to_string and toon::from_str, the   *)
(*     two forwarding wrappers around the rtoon crate;                     *)
(*   - src/examples/toon_bidirectional.rs: main, the program that calls    *)
(*     them.                                                               *)
(* The rtoon codec and the HTTP client are external: what they return is   *)
(* an input of the model, drawn from the small sets below.  The shape of   *)
(* the codec's answer (a Result) is what the wrappers' map_err relies on.  *)
(***************************************************************************)
EXTENDS Integers, Sequences, FiniteSets, TLC

VARIABLES
    pc,         \* position of main in toon_bidirectional.rs
    toon_wip,   \* the cargo feature of #[cfg(feature = "toon_wip")]
    user_data,  \* the UserProfile built at lines 59-70, lent by & to the codec
    response,   \* the response of the request in flight (lines 80-85, 101-106)
    idx,        \* index of the part the current `for part in parts` is at
    toon_content, \* text.trim() of the part being parsed (line 119)
    out,        \* what println! has written, one record per message
    calls,      \* the toon::to_string / toon::from_str calls made so far
    ret         \* what main returned: "none" while running, "Ok", "Err"

vars == <<pc, toon_wip, user_data, response, idx, toon_content, out, calls, ret>>

\* ---- bounds ----
MaxParts == 2

\* ---- values the external collaborators hand back ----
\* A TOON document is a sequence of lines.
ToonTexts == {<<"name: Bob">>, <<"name: Bob", "age: 35">>}
CodecErrors == {"e1", "e2"}
\* The user profile of lines 59-70 (fields abbreviated to what is printed).
UserData0 == [name |-> "Alice Johnson", age |-> 28, active |-> TRUE]
\* Values a successful decode hands back, per target type.
Profiles == {[name |-> "Bob Smith", age |-> 35, active |-> TRUE]}
JsonValues == {"object", "string"}

\* rtoon::to_toon(value, None): Result<String, rtoon error>
EncodeResults ==
    {[tag |-> "Ok", val |-> t] : t \in ToonTexts}
        \cup {[tag |-> "Err", err |-> e] : e \in CodecErrors}

\* rtoon::from_toon::<T>(s, None): Result<T, rtoon error>
DecodeResults(ty) ==
    {[tag |-> "Ok", val |-> v] : v \in (IF ty = "UserProfile" THEN Profiles ELSE JsonValues)}
        \cup {[tag |-> "Err", err |-> e] : e \in CodecErrors}

\* Box::new(e) as Box<dyn std::error::Error>
Box(e) == [boxed |-> e]

\* .map_err(|e| Box::new(e) as Box<dyn Error>) : Ok is passed through whole,
\* Err is re-wrapped and carries no value.
map_err_box(r) ==
    IF r.tag = "Ok" THEN [tag |-> "Ok", val |-> r.val]
                    ELSE [tag |-> "Err", err |-> Box(r.err)]

\* A wrapper that drops the last line of a successful encoding and turns a
\* codec error into an empty document.
to_string_partial(r) ==
    IF r.tag = "Ok" THEN [tag |-> "Ok", val |-> SubSeq(r.val, 1, Len(r.val) - 1)]
                    ELSE [tag |-> "Ok", val |-> <<>>]

\* toon::to_string(value), given what rtoon::to_toon answered
to_string(r) == map_err_box(r)

\* toon::from_str::<T>(s), given what rtoon::from_toon answered
from_str(r) == map_err_box(r)

\* ---- responses of the HTTP client ----
\* A part's text is a sequence of characters; " " stands for whitespace.
Texts == {<<"a">>, <<" ", "a", " ">>}

\* str::trim_start
RECURSIVE trim_start(_)
trim_start(s) == IF s # <<>> /\ Head(s) = " " THEN trim_start(Tail(s)) ELSE s

\* str::trim_end
RECURSIVE trim_end(_)
trim_end(s) ==
    IF s # <<>> /\ s[Len(s)] = " " THEN trim_end(SubSeq(s, 1, Len(s) - 1)) ELSE s

\* str::trim, as in `text.trim()`
trim(s) == trim_end(trim_start(s))

RECURSIVE SeqsUpTo(_, _)
SeqsUpTo(S, n) ==
    IF n = 0 THEN {<<>>}
    ELSE LET shorter == SeqsUpTo(S, n - 1)
         IN  shorter \cup {Append(s, x) : s \in {t \in shorter : Len(t) = n - 1}, x \in S}

Parts == {[kind |-> "Text", text |-> t] : t \in Texts} \cup {[kind |-> "Other", text |-> <<>>]}

\* response.candidates.first() is None, or candidate.content.parts is None,
\* or a list of parts.
Responses ==
    {[candidate |-> FALSE, hasParts |-> FALSE, parts |-> <<>>],
     [candidate |-> TRUE,  hasParts |-> FALSE, parts |-> <<>>]}
        \cup {[candidate |-> TRUE, hasParts |-> TRUE, parts |-> s] : s \in SeqsUpTo(Parts, MaxParts)}

NoResponse == [candidate |-> FALSE, hasParts |-> FALSE, parts |-> <<"none">>]

\* The parts the two nested `if let Some(..)` hand to the for loop.
LoopParts(r) == IF r.candidate /\ r.hasParts THEN r.parts ELSE <<>>

Say(msg, part, payload) == [msg |-> msg, part |-> part, payload |-> payload]

Call(fn, ty, part, raw, res) == [fn |-> fn, ty |-> ty, part |-> part, raw |-> raw, res |-> res]

Init ==
    /\ pc = "start"
    /\ toon_wip \in BOOLEAN
    /\ user_data = UserData0
    /\ response = NoResponse
    /\ idx = 0
    /\ toon_content = <<>>
    /\ out = <<>>
    /\ calls = <<>>
    /\ ret = "none"

\* The arm of `match toon::from_str::<UserProfile>(..)` taken: where main
\* goes after the typed parse.
TypedArmAlwaysFallsBack(w) == "generic"

TypedArm(w) == IF w.tag = "Ok" THEN "loop2" ELSE "generic"

\* What main does with the result of the generic parse: both arms only print.
GenericArm(w) == "loop2"

\* lines 44-57: the two .expect(..) panic when the key or the client is
\* missing; otherwise the headers are printed.
Startup ==
    /\ pc = "start"
    /\ \E keySet \in BOOLEAN, clientOk \in BOOLEAN :
          IF keySet /\ clientOk
          THEN /\ out' = out \o <<Say("header", 0, "-"), Say("example1", 0, "-")>>
               /\ pc' = "serialize"
          ELSE /\ pc' = "panicked"
               /\ out' = out
    /\ UNCHANGED <<toon_wip, user_data, response, idx, toon_content, calls, ret>>

\* lines 72-78: `let user_toon = toon::to_string(&user_data)?; println!(..)`
SerializeUserData ==
    /\ pc = "serialize"
    /\ IF toon_wip
       THEN \E r \in EncodeResults :
              LET w == to_string(r) IN
              /\ calls' = Append(calls, Call("to_string", "UserProfile", 0, r, w))
              /\ IF w.tag = "Ok"
                 THEN /\ out' = out \o <<Say("sending", 0, "-"), Say("user_toon", 0, w.val)>>
                      /\ pc' = "req1"
                      /\ ret' = ret
                 ELSE /\ out' = Append(out, Say("sending", 0, "-"))
                      /\ pc' = "done"
                      /\ ret' = "Err"
       ELSE /\ out' = Append(out, Say("sending", 0, "-"))
            /\ pc' = "req1"
            /\ UNCHANGED <<calls, ret>>
    /\ UNCHANGED <<toon_wip, user_data, response, idx, toon_content>>

\* lines 80-85: with_toon_message(&user_data)? ... .execute().await?
Request1 ==
    /\ pc = "req1"
    /\ \/ /\ pc' = "done"
          /\ ret' = "Err"
          /\ UNCHANGED <<response, idx>>
       \/ \E r \in Responses :
            /\ response' = r
            /\ idx' = 1
            /\ pc' = "loop1"
            /\ ret' = ret
    /\ UNCHANGED <<toon_wip, user_data, toon_content, out, calls>>

\* lines 89-94: one iteration of the first `for part in parts`
Loop1Step ==
    /\ pc = "loop1"
    /\ idx <= Len(LoopParts(response))
    /\ LET part == LoopParts(response)[idx] IN
         out' = IF part.kind = "Text"
                THEN Append(out, Say("analysis", idx, part.text))
                ELSE out
    /\ idx' = idx + 1
    /\ UNCHANGED <<pc, toon_wip, user_data, response, toon_content, calls, ret>>

\* lines 96-99: the first loop is over
Loop1Exit ==
    /\ pc = "loop1"
    /\ idx > Len(LoopParts(response))
    /\ out' = Append(out, Say("example2", 0, "-"))
    /\ pc' = "req2"
    /\ UNCHANGED <<toon_wip, user_data, response, idx, toon_content, calls, ret>>

\* lines 101-106: .using_toon() ... .execute().await?
Request2 ==
    /\ pc = "req2"
    /\ \/ /\ pc' = "done"
          /\ ret' = "Err"
          /\ UNCHANGED <<response, idx>>
       \/ \E r \in Responses :
            /\ response' = r
            /\ idx' = 1
            /\ pc' = "loop2"
            /\ ret' = ret
    /\ UNCHANGED <<toon_wip, user_data, toon_content, out, calls>>

\* lines 110-119: the head of one iteration of the second loop
Loop2Part ==
    /\ pc = "loop2"
    /\ idx <= Len(LoopParts(response))
    /\ LET part == LoopParts(response)[idx] IN
         IF part.kind = "Text"
         THEN /\ out' = Append(out, Say("toon_response", idx, part.text))
              /\ IF toon_wip
                 THEN /\ toon_content' = trim(part.text)
                      /\ pc' = "typed"
                      /\ idx' = idx
                 ELSE /\ idx' = idx + 1
                      /\ UNCHANGED <<toon_content, pc>>
         ELSE /\ idx' = idx + 1
              /\ UNCHANGED <<out, toon_content, pc>>
    /\ UNCHANGED <<toon_wip, user_data, response, calls, ret>>

\* lines 120-135: match toon::from_str::<UserProfile>(toon_content)
TypedParse ==
    /\ pc = "typed"
    /\ \E r \in DecodeResults("UserProfile") :
         LET w == from_str(r) IN
         /\ calls' = Append(calls, Call("from_str", "UserProfile", idx, r, w))
         /\ out' = IF w.tag = "Ok"
                   THEN Append(out, Say("parsed_profile", idx, w.val))
                   ELSE out \o <<Say("not_profile", idx, w.err), Say("trying_generic", idx, "-")>>
         /\ pc' = TypedArm(w)
         /\ idx' = IF TypedArm(w) = "loop2" THEN idx + 1 ELSE idx
    /\ UNCHANGED <<toon_wip, user_data, response, toon_content, ret>>

\* lines 137-145: match toon::from_str::<serde_json::Value>(toon_content)
GenericParse ==
    /\ pc = "generic"
    /\ \E r \in DecodeResults("Value") :
         LET w == from_str(r) IN
         /\ calls' = Append(calls, Call("from_str", "Value", idx, r, w))
         /\ out' = IF w.tag = "Ok"
                   THEN Append(out, Say("parsed_generic", idx, w.val))
                   ELSE Append(out, Say("failed", idx, w.err))
         /\ pc' = GenericArm(w)
    /\ idx' = idx + 1
    /\ UNCHANGED <<toon_wip, user_data, response, toon_content, ret>>

\* lines 152-155: the second loop is over; main returns Ok(())
Finish ==
    /\ pc = "loop2"
    /\ idx > Len(LoopParts(response))
    /\ out' = Append(out, Say("complete", 0, "-"))
    /\ ret' = "Ok"
    /\ pc' = "done"
    /\ UNCHANGED <<toon_wip, user_data, response, idx, toon_content, calls>>

Next ==
    \/ Startup
    \/ SerializeUserData
    \/ Request1
    \/ Loop1Step
    \/ Loop1Exit
    \/ Request2
    \/ Loop2Part
    \/ TypedParse
    \/ GenericParse
    \/ Finish

Spec == Init /\ [][Next]_vars

TypeOK ==
    /\ pc \in {"start", "panicked", "serialize", "req1", "loop1", "req2", "loop2",
                "typed", "generic", "done"}
    /\ toon_wip \in BOOLEAN
    /\ ret \in {"none", "Ok", "Err"}
    /\ idx \in 0..(MaxParts + 1)

\* ---- helpers of the properties ----
CallIdx == 1..Len(calls)
OutIdx == 1..Len(out)
InSecondLoop == pc \in {"loop2", "typed", "generic"}
Said(msg, part) == \E k \in OutIdx : out[k].msg = msg /\ out[k].part = part

C10_FallbackOnlyAfterErr ==
    /\ \A k \in CallIdx :
         (calls[k].fn = "from_str" /\ calls[k].ty = "Value") =>
            /\ k > 1
            /\ calls[k - 1].fn = "from_str"
            /\ calls[k - 1].ty = "UserProfile"
            /\ calls[k - 1].part = calls[k].part
            /\ calls[k - 1].res.tag = "Err"
    /\ \A i \in 1..Len(LoopParts(response)) :
         ~(Said("parsed_profile", i) /\ Said("parsed_generic", i))
    /\ InSecondLoop => (ret = "none" /\ ENABLED Next)
    /\ (\E k \in CallIdx : calls[k].fn = "from_str") => (pc = "done" => ret = "Ok")
    /\ (pc = "done" /\ ret = "Ok" /\ toon_wip) =>
         \A i \in 1..Len(LoopParts(response)) :
            LoopParts(response)[i].kind = "Text" =>
               \E k \in CallIdx : /\ calls[k].fn = "from_str"
                                  /\ calls[k].ty = "UserProfile"
                                  /\ calls[k].part = i

\* A finished run in which both parses of part 1 returned Err and part 2
\* was parsed all the same.
C10_Witness ==
    /\ pc = "done"
    /\ ret = "Ok"
    /\ \E k \in CallIdx : /\ calls[k].ty = "UserProfile" /\ calls[k].part = 1
                          /\ calls[k].res.tag = "Err"
    /\ \E k \in CallIdx : /\ calls[k].ty = "Value" /\ calls[k].part = 1
                          /\ calls[k].res.tag = "Err"
    /\ \E k \in CallIdx : calls[k].fn = "from_str" /\ calls[k].part = 2
====
